---- MODULE Spec2Model ----
(***************************************************************************)
(* State-machine model of data_downloader.DataDownloader                   *)
(* (src/src/data_downloader/__init__.py).                                  *)
(*                                                                         *)
(* The state is the file system the downloader works on, the position of   *)
(* the running call, and a few history variables that record what the      *)
(* running call has done so far.  Every file-system call of the code is    *)
(* one step, so that a failure or a termination of the process can be      *)
(* observed between any two of them.                                       *)
(***************************************************************************)
EXTENDS Naturals, Sequences, FiniteSets, TLC

VARIABLES
    fs,        \* the file system: path -> node (DirNode, or a file's blocks)
    pc,        \* position of the running call (kept where a call ended)
    call,      \* the arguments of the running (or last) top-level call
    result,    \* "none", "running", "returned", "raised" or "crashed"
    error,     \* the exception of a call that raised, "" otherwise
    response,  \* download: the blocks of the response not read yet
    members,   \* unzip: the members of the archive not extracted yet
    todo,      \* flatten: items left to move; move_files: files of the
               \* current pattern left to move
    patterns,  \* move_files: patterns not globbed yet
    candidate, \* flatten: the single top-level directory being promoted
    stats,     \* history: what the running call did (requests made, transfers
               \* begun, archives opened, members extracted, entries moved)
    fs0,       \* history: the file system when the running call began
    prev,      \* history: how the call before the running one ended, the
               \* transfers it began, whether it failed in download or unzip
               \* inside a dataset operation, and whether it was about the same file,
               \* archive or dataset
    ncalls     \* number of calls begun so far

vars == <<fs, pc, call, result, error, response, members, todo, patterns,
          candidate, stats, fs0, prev, ncalls>>

\* Number of dataset operations in one run of the model.
MaxCalls == 2

\* Number of direct download and unzip calls in one run of the model.
MaxToolCalls == 3

-----------------------------------------------------------------------------
(* Paths and the file system *)

\* The node of a directory; a file's node is the sequence of its blocks.
DirNode == <<"/">>

\* os.path.exists
exists(f, p) == p \in DOMAIN f

\* os.path.isdir
isdir(f, p) == p \in DOMAIN f /\ f[p] = DirNode

\* os.path.dirname: the empty path stands for '' (a bare file name's dirname)
dirname(p) == SubSeq(p, 1, Len(p) - 1)

\* os.path.basename
basename(p) == p[Len(p)]

\* an absolute path: its first component starts at the root
isabs(p) == p # <<>> /\ Head(p[1]) = "/"

\* os.path.join(p, q): an absolute q replaces p
join(p, q) == IF isabs(q) THEN q ELSE p \o q

\* path + suffix: the sibling whose last component carries the suffix
WithSuffix(p, s) == SubSeq(p, 1, Len(p) - 1) \o <<p[Len(p)] \o s>>

IsPrefix(p, q) == Len(p) <= Len(q) /\ SubSeq(q, 1, Len(p)) = p

\* p and everything below it
Under(f, p) == {q \in DOMAIN f : IsPrefix(p, q)}

\* the proper, non-empty ancestors of p
Ancestors(p) == {SubSeq(p, 1, i) : i \in 1..(Len(p) - 1)}

\* os.listdir: the names of the immediate entries of p
listdir(f, p) == {q[Len(p) + 1] : q \in {r \in DOMAIN f : Len(r) = Len(p) + 1 /\ IsPrefix(p, r)}}

\* the tree below p, with paths relative to p
Tree(f, p) ==
    [q \in {SubSeq(r, Len(p) + 1, Len(r)) : r \in Under(f, p) \ {p}} |-> f[p \o q]]

\* os.makedirs(p) can create p: p is not '', and nothing on the way is a file
CanMakedirs(f, p) ==
    /\ p # <<>>
    /\ \A a \in Ancestors(p) \cup {p} : a \in DOMAIN f => f[a] = DirNode

\* os.makedirs(p, exist_ok=True): p and its missing ancestors become directories
makedirs(f, p) ==
    [a \in (Ancestors(p) \cup {p}) \ DOMAIN f |-> DirNode] @@ f

\* open(p, 'wb') succeeds: the parent is a directory and p is no directory
CanCreateFile(f, p) ==
    /\ (Len(p) > 1 => isdir(f, dirname(p)))
    /\ ~isdir(f, p)

\* a file with the given blocks at p (created or truncated)
WriteFile(f, p, blocks) == (p :> blocks) @@ f

\* os.rename(src, dst) onto a path that does not exist, or replacing dst:
\* the node src and everything below it move to dst
rename(f, src, dst) ==
    LET moved == Under(f, src)
        rest  == DOMAIN f \ (moved \cup Under(f, dst))
        new   == {dst \o SubSeq(q, Len(src) + 1, Len(q)) : q \in moved}
    IN  [q \in rest \cup new |->
            IF q \in rest THEN f[q]
            ELSE f[src \o SubSeq(q, Len(dst) + 1, Len(q))]]

\* shutil.rmtree / TemporaryDirectory.cleanup
rmtree(f, p) == [q \in DOMAIN f \ Under(f, p) |-> f[q]]

\* shutil.move(src, dst): into dst when dst is a directory, else onto dst
real_dst(f, src, dst) == IF isdir(f, dst) THEN dst \o <<basename(src)>> ELSE dst

\* shutil.move raises shutil.Error: the entry exists in the directory dst
MoveFails(f, src, dst) == isdir(f, dst) /\ exists(f, real_dst(f, src, dst))

move(f, src, dst) == rename(f, src, real_dst(f, src, dst))

-----------------------------------------------------------------------------
(* Strings: path lengths and glob patterns *)

RECURSIVE PathString(_)
\* the path as the string the code handles, components joined by the separator
PathString(p) ==
    IF p = <<>> THEN ""
    ELSE IF Len(p) = 1 THEN p[1]
    ELSE p[1] \o "/" \o PathString(Tail(p))

\* os.getcwd() of the process
Cwd == "/home/user/work"

\* os.path.abspath
abspath(p) == IF isabs(p) THEN PathString(p) ELSE Cwd \o "/" \o PathString(p)

StrTail(s) == SubSeq(s, 2, Len(s))

RECURSIVE fnmatch(_, _)
\* fnmatch of a name against a pattern of literal characters and '*'
fnmatch(name, pat) ==
    IF pat = "" THEN name = ""
    ELSE IF Head(pat) = "*"
         THEN \E k \in 0..Len(name) :
                 fnmatch(SubSeq(name, k + 1, Len(name)), StrTail(pat))
    ELSE name # "" /\ Head(name) = Head(pat) /\ fnmatch(StrTail(name), StrTail(pat))

\* glob.glob(os.path.join(dir, pattern)) for a pattern without a separator:
\* the entries of dir (files and directories) whose name matches; a leading
\* dot is matched only by a pattern that starts with a dot
glob(f, dir, pat) ==
    {dir \o <<n>> : n \in {m \in listdir(f, dir) :
        fnmatch(m, pat) /\ (Head(m) = "." => Head(pat) = ".")}}

-----------------------------------------------------------------------------
(* The inputs: URLs with their responses, archives, call arguments *)

\* the URLs the caller asks for
Urls == {"root.zip", "nested.zip", "long.zip", "text.txt"}

\* the body the server sends for a URL, in blocks of block_size bytes
Body(url) ==
    CASE url = "root.zip"   -> <<"root.zip#1", "root.zip#2">>
      [] url = "nested.zip" -> <<"nested.zip#1">>
      [] url = "long.zip"   -> <<"long.zip#1">>
      [] OTHER              -> <<"tiny test asset">>

Pad10 == "0123456789"
Pad50 == Pad10 \o Pad10 \o Pad10 \o Pad10 \o Pad10
\* a member name of 235 characters: with its directory it fits the bound of
\* line 175 under cache/X and under the temporary directory, and exceeds it
\* under cache/X_tmp
LongName == Pad50 \o Pad50 \o Pad50 \o Pad50 \o "0123456789012345678901234567890.txt"

\* zipfile.ZipFile(...).namelist() with each member's data, by file content;
\* the empty sequence of a file that is no archive is never asked for
namelist(blocks) ==
    CASE blocks = Body("root.zip") ->
            << [name |-> <<"keep.txt">>, data |-> <<"keep me">>],
               [name |-> <<"drop.csv">>, data |-> <<"id,val">>] >>
      [] blocks = Body("nested.zip") ->
            << [name |-> <<"subfolder", "inner.txt">>, data |-> <<"nested file">>],
               [name |-> <<"subfolder", "more", "deep.txt">>, data |-> <<"deep file">>] >>
      [] blocks = Body("long.zip") ->
            << [name |-> <<"short.txt">>, data |-> <<"short">>],
               [name |-> <<LongName>>, data |-> <<"long">>] >>
      [] OTHER -> << >>

\* zipfile.is_zipfile: the file holds a whole archive
IsZip(blocks) == blocks \in {Body("root.zip"), Body("nested.zip"), Body("long.zip")}

\* DataDownloader(download_path): the base directory of the cache
download_path == <<"cache">>

\* the directory tempfile.TemporaryDirectory() creates (an absolute path)
temp_dir == <<"/tmp/tmpa1b2c3d4">>

\* (dataset_name, subfolder_name) of download_and_unzip; "" is no subfolder
DatasetLocations == {<<"X", "">>, <<"X", "s">>, <<"X_tmp", "">>}
\* dataset_name of download_unzip_keep_subset
KeepDatasets == {"X"}
PatternLists == {<<"*.txt", "*e*">>, <<"*.dat">>}
DownloadPaths == {<<"cache", "a.zip">>, <<"gazetteer">>}
UnzipPaths == {<<"cache", "X">>}
PathTests == {<< >>, <<"keep.txt">>, <<"missing">>}

NoCall == [op |-> "none", url |-> "", path |-> << >>, zip |-> << >>, dest |-> << >>,
           test |-> << >>, ds |-> "", sub |-> "", flatten |-> FALSE, patterns |-> << >>]

NoStats == [requests |-> 0, transfers |-> 0, opened |-> 0, extracted |-> 0, moved |-> 0]

\* download_and_unzip: its unzip_path; download_unzip_keep_subset: its unzip_path
target(c) == download_path \o <<c.ds>> \o (IF c.sub = "" THEN << >> ELSE <<c.sub>>)

\* download_unzip_keep_subset: extract_path
extract_path == temp_dir \o <<call.ds>>

\* unzip's zip_file_path argument in the running call
zip_file_path ==
    IF call.op = "unzip" THEN call.zip ELSE temp_dir \o <<call.ds \o ".zip">>

\* unzip's unzip_path argument in the running call (os.path.normpath applied:
\* a path is a sequence of components, so it has no trailing separator)
unzip_path ==
    CASE call.op = "unzip" -> call.dest
      [] call.op = "download_unzip_keep_subset" -> extract_path
      [] OTHER -> target(call)

\* unzip's path_test argument in the running call
path_test ==
    CASE call.op = "unzip" -> call.test
      [] call.op = "download_unzip_keep_subset" -> extract_path
      [] OTHER -> << >>

\* download's path argument in the running call
path == IF call.op = "download" THEN call.path ELSE zip_file_path

\* a download that writes to its destination
tmp_path_InPlace == path

\* download: tmp_path = path + '.tmp'
tmp_path == WithSuffix(path, ".tmp")

\* an extraction into its destination
tmp_unzip_path_InPlace == unzip_path

\* unzip: tmp_unzip_path = f'{unzip_path}_tmp'
tmp_unzip_path == WithSuffix(unzip_path, "_tmp")

-----------------------------------------------------------------------------
(* Control: calls, returns, exceptions, termination of the process *)

Init ==
    /\ fs = << >>
    /\ pc = "idle"
    /\ call = NoCall
    /\ result = "none"
    /\ error = ""
    /\ response = << >>
    /\ members = << >>
    /\ todo = {}
    /\ patterns = << >>
    /\ candidate = << >>
    /\ stats = NoStats
    /\ fs0 = << >>
    /\ prev = [same |-> FALSE, result |-> "none", transfers |-> 0, failed |-> FALSE]
    /\ ncalls = 0

DatasetOps == {"download_and_unzip", "download_unzip_keep_subset"}

\* two calls are about the same thing: downloads of the same path, unzips with
\* the same arguments, dataset operations on the same directory
SameSubject(c1, c2) ==
    \/ c1.op = "download" /\ c2.op = "download" /\ c1.path = c2.path
    \/ c1.op = "unzip" /\ c2.op = "unzip" /\ c1.zip = c2.zip /\ c1.dest = c2.dest
          /\ c1.test = c2.test
    \/ c1.op \in DatasetOps /\ c2.op \in DatasetOps /\ target(c1) = target(c2)

\* the errors that download and unzip raise
DownloadUnzipErrors ==
    {"URLError", "OSError", "IOError", "FileNotFoundError", "FileExistsError",
     "BadZipFile", "ValueError"}

\* the call raised out of its with block (where the exception went through
\* Unwind) with an error of download or unzip
RaisedInWith ==
    /\ call.op \in DatasetOps
    /\ result = "raised"
    /\ pc = "unwind"
    /\ error \in DownloadUnzipErrors

\* the caller makes the next call c, which starts at label l; it makes at
\* most max calls
Begin(c, l, max) ==
    /\ result # "running"
    /\ ncalls < max
    /\ call' = c
    /\ pc' = l
    /\ result' = "running"
    /\ error' = ""
    /\ stats' = NoStats
    /\ fs0' = fs
    /\ prev' = [same |-> SameSubject(call, c), result |-> result,
                 transfers |-> stats.transfers, failed |-> RaisedInWith]
    /\ ncalls' = ncalls + 1
    /\ response' = << >>
    /\ members' = << >>
    /\ todo' = {}
    /\ patterns' = << >>
    /\ candidate' = << >>
    /\ UNCHANGED fs

\* the code runs inside a `with tempfile.TemporaryDirectory()` block
InWith ==
    /\ call.op \in DatasetOps
    /\ pc \notin {"dau_check", "ks_check", "flatten", "fl_move", "fl_rmdir"}

\* the position after the sub-operation op ("download", "unzip", "move_files")
\* returns: the next statement of its caller (lines 214, 283 and 286 call the
\* next sub-operation), or the end of the call
After(op) ==
    CASE call.op = "download_and_unzip" /\ op = "download" -> "unzip"
      [] call.op = "download_and_unzip" /\ op = "unzip" -> "dau_exit"
      [] call.op = "download_unzip_keep_subset" /\ op = "download" -> "unzip"
      [] call.op = "download_unzip_keep_subset" /\ op = "unzip" -> "move_files"
      [] call.op = "download_unzip_keep_subset" /\ op = "move_files" -> "ks_exit"
      [] OTHER -> "done"

\* the sub-operation op returns
Return(op) ==
    /\ pc' = After(op)
    /\ result' = IF After(op) = "done" THEN "returned" ELSE result
    /\ error' = error

\* the running statement raises e: inside a with block the temporary directory
\* is cleaned up before the exception leaves the call
Raise(e) ==
    /\ error' = e
    /\ pc' = IF InWith THEN "unwind" ELSE pc
    /\ result' = IF InWith THEN result ELSE "raised"

\* the statement at label l is next
Goto(l) == pc' = l /\ result' = result /\ error' = error

At(l) == result = "running" /\ pc = l

\* an exception that leaves the call without the clean-up of the with block
Unwind_KeepsTemp ==
    /\ At("unwind")
    /\ result' = "raised"
    /\ UNCHANGED <<fs, pc, call, error, response, members, todo, patterns, candidate,
                   stats, fs0, prev, ncalls>>

\* an exit of the with block that swallows the exception
Unwind_Swallows ==
    /\ At("unwind")
    /\ fs' = rmtree(fs, temp_dir)
    /\ result' = "returned"
    /\ UNCHANGED <<pc, call, error, response, members, todo, patterns, candidate,
                   stats, fs0, prev, ncalls>>

\* TemporaryDirectory.__exit__ on an exception, then the exception propagates
Unwind ==
    /\ At("unwind")
    /\ fs' = rmtree(fs, temp_dir)
    /\ result' = "raised"
    /\ UNCHANGED <<pc, call, error, response, members, todo, patterns, candidate,
                   stats, fs0, prev, ncalls>>

\* the process terminates: nothing is cleaned up.  The temporary directory
\* stays behind under its unique name, which no later call uses again, so it
\* leaves the paths the model follows; the locals of the call are gone.
Crash ==
    /\ result = "running"
    /\ result' = "crashed"
    /\ fs' = rmtree(fs, temp_dir)
    /\ response' = << >>
    /\ members' = << >>
    /\ todo' = {}
    /\ patterns' = << >>
    /\ candidate' = << >>
    /\ UNCHANGED <<pc, call, error, stats, fs0, prev, ncalls>>

-----------------------------------------------------------------------------
(* download(url, path), lines 98-144 *)

BeginDownload ==
    \E u \in Urls, p \in DownloadPaths :
        Begin([NoCall EXCEPT !.op = "download", !.url = u, !.path = p], "download",
              MaxToolCalls)

\* a download that never skips
SkipDownload_Never == FALSE

\* line 109: the file is there already
SkipDownload == exists(fs, path)

\* a failure that installs what was written so far
DownloadFail_Installs(e) ==
    /\ Raise(e)
    /\ fs' = IF exists(fs, tmp_path) THEN rename(fs, tmp_path, path) ELSE fs
    /\ UNCHANGED response

\* lines 129-142: an exception leaves the with block, which closes the
\* response and the file; nothing else is done before it propagates
DownloadFail(e) == Raise(e) /\ UNCHANGED <<fs, response>>

\* lines 109-116: skip, or create the missing parent directories
DownloadCheck ==
    /\ At("download")
    /\ IF SkipDownload
       THEN Return("download") /\ UNCHANGED fs
       ELSE IF exists(fs, dirname(path))
            THEN Goto("dl_open") /\ UNCHANGED fs
            ELSE IF CanMakedirs(fs, dirname(path))
                 THEN Goto("dl_open") /\ fs' = makedirs(fs, dirname(path))
                 ELSE Raise("FileNotFoundError") /\ UNCHANGED fs
    /\ UNCHANGED <<call, response, members, todo, patterns, candidate, stats,
                   fs0, prev, ncalls>>

\* lines 127-129: one request; the response and the temporary file are opened
DownloadOpen ==
    /\ At("dl_open")
    /\ \/ /\ DownloadFail("URLError")
          /\ stats' = [stats EXCEPT !.requests = @ + 1]
       \/ /\ CanCreateFile(fs, tmp_path)
          /\ fs' = WriteFile(fs, tmp_path, << >>)
          /\ response' = Body(call.url)
          /\ stats' = [stats EXCEPT !.requests = @ + 1, !.transfers = @ + 1]
          /\ Goto("dl_read")
       \/ /\ DownloadFail("OSError")
          /\ stats' = [stats EXCEPT !.requests = @ + 1]
    /\ UNCHANGED <<call, members, todo, patterns, candidate, fs0, prev, ncalls>>

\* lines 136-142: one pass of the loop: read a block and write it, or stop at
\* the end of the body; a read or a write may fail
DownloadBlock ==
    /\ At("dl_read")
    /\ \/ /\ response # << >>
          /\ fs' = WriteFile(fs, tmp_path, Append(fs[tmp_path], Head(response)))
          /\ response' = Tail(response)
          /\ Goto("dl_read")
       \/ /\ response = << >>
          /\ Goto("dl_rename")
          /\ UNCHANGED <<fs, response>>
       \/ DownloadFail("IOError")
    /\ UNCHANGED <<call, members, todo, patterns, candidate, stats, fs0, prev, ncalls>>

\* a last step that copies the temporary file instead of renaming it
DownloadRename_Copy ==
    /\ At("dl_rename")
    /\ fs' = WriteFile(fs, path, fs[tmp_path])
    /\ Return("download")
    /\ UNCHANGED <<call, response, members, todo, patterns, candidate, stats,
                   fs0, prev, ncalls>>

\* line 143: os.rename(tmp_path, path)
DownloadRename ==
    /\ At("dl_rename")
    /\ fs' = rename(fs, tmp_path, path)
    /\ Return("download")
    /\ UNCHANGED <<call, response, members, todo, patterns, candidate, stats,
                   fs0, prev, ncalls>>

DownloadStep == DownloadCheck \/ DownloadOpen \/ DownloadBlock \/ DownloadRename

-----------------------------------------------------------------------------
(* unzip(zip_file_path, unzip_path, path_test), lines 146-182 *)

BeginUnzip ==
    \E z \in DownloadPaths, d \in UnzipPaths, t \in PathTests :
        Begin([NoCall EXCEPT !.op = "unzip", !.zip = z, !.dest = d, !.test = t], "unzip",
              MaxToolCalls)

\* an extraction that never skips
SkipUnzip_Never == FALSE

\* a test that looks for path_test alone, not under unzip_path
SkipUnzip_TestOnly == exists(fs, path_test)

\* lines 162-163: unpack_dir exists
SkipUnzip == exists(fs, join(unzip_path, path_test))

\* lines 161-169: skip, or make the temporary directory (exist_ok=True)
UnzipCheck ==
    /\ At("unzip")
    /\ IF SkipUnzip
       THEN Return("unzip") /\ UNCHANGED fs
       ELSE IF CanMakedirs(fs, tmp_unzip_path)
            THEN Goto("uz_open") /\ fs' = makedirs(fs, tmp_unzip_path)
            ELSE Raise("FileExistsError") /\ UNCHANGED fs
    /\ UNCHANGED <<call, response, members, todo, patterns, candidate, stats,
                   fs0, prev, ncalls>>

\* the bound of line 175
MaxPathLen == 260

\* line 174: full_path = os.path.join(absolute_unzip_path, member)
full_path(m) == abspath(tmp_unzip_path) \o "/" \o PathString(m.name)

\* a length check that looks at the first member only
PathTooLong_FirstOnly(blocks) ==
    /\ namelist(blocks) # << >>
    /\ Len(full_path(namelist(blocks)[1])) > MaxPathLen

\* lines 173-178: some member's full path is too long
PathTooLong(blocks) ==
    \E i \in 1..Len(namelist(blocks)) : Len(full_path(namelist(blocks)[i])) > MaxPathLen

\* lines 172-178: open the archive and check the length of every member's path
UnzipOpen ==
    /\ At("uz_open")
    /\ IF ~exists(fs, zip_file_path) \/ isdir(fs, zip_file_path)
       THEN Raise("FileNotFoundError") /\ UNCHANGED <<members, stats>>
       ELSE IF ~IsZip(fs[zip_file_path])
            THEN Raise("BadZipFile") /\ UNCHANGED <<members, stats>>
            ELSE /\ stats' = [stats EXCEPT !.opened = @ + 1]
                 /\ IF PathTooLong(fs[zip_file_path])
                    THEN Raise("ValueError") /\ UNCHANGED members
                    ELSE Goto("uz_extract") /\ members' = namelist(fs[zip_file_path])
    /\ UNCHANGED <<fs, call, response, todo, patterns, candidate, fs0, prev, ncalls>>

\* an extraction that drops the directories of a member's name
ExtractTo_Basename(m) == tmp_unzip_path \o <<m.name[Len(m.name)]>>

\* where extractall writes member m
ExtractTo(m) == tmp_unzip_path \o m.name

\* the member can be written: nothing on its way is a file, and no directory
\* has its name
CanExtract(f, m) ==
    /\ CanMakedirs(f, dirname(ExtractTo(m)))
    /\ ~isdir(f, ExtractTo(m))

\* line 179: extractall writes the next member (its directories, then the
\* file, replacing a file of that name), or fails
UnzipExtract ==
    /\ At("uz_extract")
    /\ \/ /\ members # << >>
          /\ CanExtract(fs, Head(members))
          /\ fs' = WriteFile(makedirs(fs, dirname(ExtractTo(Head(members)))),
                             ExtractTo(Head(members)), Head(members).data)
          /\ members' = Tail(members)
          /\ stats' = [stats EXCEPT !.extracted = @ + 1]
          /\ Goto("uz_extract")
       \/ /\ members # << >>
          /\ Raise("OSError")
          /\ UNCHANGED <<fs, members, stats>>
       \/ /\ members = << >>
          /\ Goto("uz_rename")
          /\ UNCHANGED <<fs, members, stats>>
    /\ UNCHANGED <<call, response, todo, patterns, candidate, fs0, prev, ncalls>>

\* os.rename of a directory succeeds onto a path that does not exist and, on
\* POSIX only, onto an empty directory
CanRenameDir(f, dst) == ~exists(f, dst) \/ (isdir(f, dst) /\ listdir(f, dst) = {})

\* line 182: os.rename(tmp_unzip_path, unzip_path)
UnzipRename ==
    /\ At("uz_rename")
    /\ \/ /\ CanRenameDir(fs, unzip_path)
          /\ fs' = rename(fs, tmp_unzip_path, unzip_path)
          /\ Return("unzip")
       \/ /\ exists(fs, unzip_path)
          /\ Raise("OSError")
          /\ UNCHANGED fs
    /\ UNCHANGED <<call, response, members, todo, patterns, candidate, stats,
                   fs0, prev, ncalls>>

UnzipStep == UnzipCheck \/ UnzipOpen \/ UnzipExtract \/ UnzipRename

-----------------------------------------------------------------------------
(* download_and_unzip(url, dataset_name, subfolder_name, flatten_directory),
   lines 184-235 *)

BeginDownloadAndUnzip ==
    \E u \in Urls, l \in DatasetLocations, fl \in BOOLEAN :
        Begin([NoCall EXCEPT !.op = "download_and_unzip", !.url = u, !.ds = l[1],
                             !.sub = l[2], !.flatten = fl], "dau_check", MaxCalls)

\* a dataset operation that never skips
SkipDataset_Never == FALSE

\* line 205: the dataset's directory is there already
SkipDataset == exists(fs, target(call))

\* a skip that also skips the flatten step
DauCheck_SkipsFlatten ==
    /\ At("dau_check")
    /\ IF SkipDataset
       THEN Return("flatten") /\ UNCHANGED fs
       ELSE Goto("download") /\ fs' = makedirs(fs, temp_dir)
    /\ UNCHANGED <<call, response, members, todo, patterns, candidate, stats,
                   fs0, prev, ncalls>>

\* lines 201-211: skip to the flatten step, or make the temporary directory
\* and call download
DauCheck ==
    /\ At("dau_check")
    /\ IF SkipDataset
       THEN Goto("flatten") /\ UNCHANGED fs
       ELSE Goto("download") /\ fs' = makedirs(fs, temp_dir)
    /\ UNCHANGED <<call, response, members, todo, patterns, candidate, stats,
                   fs0, prev, ncalls>>


\* end of the with block of line 208: the temporary directory is removed
DauExit ==
    /\ At("dau_exit")
    /\ fs' = rmtree(fs, temp_dir)
    /\ Goto("flatten")
    /\ UNCHANGED <<call, response, members, todo, patterns, candidate, stats,
                   fs0, prev, ncalls>>

\* lines 219-222: entries = os.listdir(unzip_path), [] when it is missing
entries(f, p) == IF exists(f, p) THEN listdir(f, p) ELSE {}

\* line 224
dir_entries(f, p) == {e \in entries(f, p) : isdir(f, p \o <<e>>)}

\* a flatten step that promotes the single directory among several entries
ShouldFlatten_OneDir(f, p) == Cardinality(dir_entries(f, p)) = 1

\* a flatten step that promotes the single directory only when it is named
\* after the dataset
ShouldFlatten_Named(f, p) ==
    /\ entries(f, p) = {call.ds}
    /\ isdir(f, p \o <<call.ds>>)

\* lines 225-229: the single entry of unzip_path is a directory, and there is
\* no warning about several directories
ShouldFlatten(f, p) ==
    /\ ~(Cardinality(dir_entries(f, p)) > 1)
    /\ Cardinality(entries(f, p)) = 1
    /\ \A e \in entries(f, p) : isdir(f, p \o <<e>>)

\* lines 217-231: decide whether to flatten; the items of the candidate are
\* listed once, before the first move
Flatten ==
    /\ At("flatten")
    /\ IF ~call.flatten
       THEN Return("flatten") /\ UNCHANGED <<todo, candidate>>
       ELSE IF exists(fs, target(call)) /\ ~isdir(fs, target(call))
            THEN Raise("NotADirectoryError") /\ UNCHANGED <<todo, candidate>>
            ELSE IF ShouldFlatten(fs, target(call))
                 THEN /\ candidate' = target(call) \o
                            <<CHOOSE e \in entries(fs, target(call)) : TRUE>>
                      /\ todo' = {candidate' \o <<i>> : i \in listdir(fs, candidate')}
                      /\ Goto("fl_move")
                 ELSE Return("flatten") /\ UNCHANGED <<todo, candidate>>
    /\ UNCHANGED <<fs, call, response, members, patterns, stats, fs0, prev, ncalls>>

\* lines 231-233: shutil.move(item_path, unzip_path) for the next item, in the
\* order os.listdir gave, which is any order
FlattenMove ==
    /\ At("fl_move")
    /\ \/ \E item \in todo :
            IF MoveFails(fs, item, target(call))
            THEN Raise("shutil.Error") /\ UNCHANGED <<fs, todo, stats>>
            ELSE /\ fs' = move(fs, item, target(call))
                 /\ todo' = todo \ {item}
                 /\ stats' = [stats EXCEPT !.moved = @ + 1]
                 /\ Goto("fl_move")
       \/ /\ todo = {}
          /\ Goto("fl_rmdir")
          /\ UNCHANGED <<fs, todo, stats>>
    /\ UNCHANGED <<call, response, members, patterns, candidate, fs0, prev, ncalls>>

\* line 234: os.rmdir(candidate), which raises when the directory is not empty
FlattenRmdir ==
    /\ At("fl_rmdir")
    /\ IF listdir(fs, candidate) = {}
       THEN fs' = rmtree(fs, candidate) /\ Return("flatten")
       ELSE Raise("OSError") /\ UNCHANGED fs
    /\ UNCHANGED <<call, response, members, todo, patterns, candidate, stats,
                   fs0, prev, ncalls>>

DownloadAndUnzipStep == DauCheck \/ DauExit \/ Flatten \/ FlattenMove \/ FlattenRmdir

-----------------------------------------------------------------------------
(* move_files(patterns, source_directory, destination_directory), lines 237-259 *)

\* move_files' arguments in the running call (line 286)
source_directory == extract_path
destination_directory == target(call)

\* a move_files that does not make the destination directory
MoveStart_NoMkdir ==
    /\ At("move_files")
    /\ Goto("mv_glob")
    /\ patterns' = call.patterns
    /\ UNCHANGED <<fs, call, response, members, todo, candidate, stats, fs0, prev, ncalls>>

\* lines 249-251: the destination directory is made when it is missing
MoveStart ==
    /\ At("move_files")
    /\ IF exists(fs, destination_directory)
       THEN Goto("mv_glob") /\ UNCHANGED fs
       ELSE IF CanMakedirs(fs, destination_directory)
            THEN Goto("mv_glob") /\ fs' = makedirs(fs, destination_directory)
            ELSE Raise("FileExistsError") /\ UNCHANGED fs
    /\ patterns' = call.patterns
    /\ UNCHANGED <<call, response, members, todo, candidate, stats, fs0, prev, ncalls>>

\* lines 254-255: glob the next pattern, or return after the last one
MoveGlob ==
    /\ At("mv_glob")
    /\ IF patterns = << >>
       THEN Return("move_files") /\ UNCHANGED <<todo, patterns>>
       ELSE /\ todo' = glob(fs, source_directory, Head(patterns))
            /\ patterns' = Tail(patterns)
            /\ Goto("mv_move")
    /\ UNCHANGED <<fs, call, response, members, candidate, stats, fs0, prev, ncalls>>

\* a move_files that copies: the source keeps what was moved
MoveFile_Copy ==
    /\ At("mv_move")
    /\ \/ \E filepath \in todo :
            LET destination_filepath == destination_directory \o <<basename(filepath)>>
            IN  /\ fs' = move(fs, filepath, destination_filepath) @@ fs
                /\ todo' = todo \ {filepath}
                /\ stats' = [stats EXCEPT !.moved = @ + 1]
                /\ Goto("mv_move")
       \/ /\ todo = {}
          /\ Goto("mv_glob")
          /\ UNCHANGED <<fs, todo, stats>>
    /\ UNCHANGED <<call, response, members, patterns, candidate, fs0, prev, ncalls>>

\* lines 256-258: shutil.move(filepath, destination_filepath) for the next
\* file of the pattern, in any order
MoveFile ==
    /\ At("mv_move")
    /\ \/ \E filepath \in todo :
            LET destination_filepath == destination_directory \o <<basename(filepath)>>
            IN  IF MoveFails(fs, filepath, destination_filepath)
                THEN Raise("shutil.Error") /\ UNCHANGED <<fs, todo, stats>>
                ELSE /\ fs' = move(fs, filepath, destination_filepath)
                     /\ todo' = todo \ {filepath}
                     /\ stats' = [stats EXCEPT !.moved = @ + 1]
                     /\ Goto("mv_move")
       \/ /\ todo = {}
          /\ Goto("mv_glob")
          /\ UNCHANGED <<fs, todo, stats>>
    /\ UNCHANGED <<call, response, members, patterns, candidate, fs0, prev, ncalls>>

MoveFilesStep == MoveStart \/ MoveGlob \/ MoveFile

-----------------------------------------------------------------------------
(* download_unzip_keep_subset(url, zip_file_patterns, dataset_name),
   lines 261-287 *)

BeginKeepSubset ==
    \E u \in Urls, ps \in PatternLists, d \in KeepDatasets :
        Begin([NoCall EXCEPT !.op = "download_unzip_keep_subset", !.url = u,
                             !.ds = d, !.patterns = ps], "ks_check", MaxCalls)

\* lines 273-280: skip, or make the temporary directory and call download
KsCheck ==
    /\ At("ks_check")
    /\ IF SkipDataset
       THEN Return("download_unzip_keep_subset") /\ UNCHANGED fs
       ELSE Goto("download") /\ fs' = makedirs(fs, temp_dir)
    /\ UNCHANGED <<call, response, members, todo, patterns, candidate, stats,
                   fs0, prev, ncalls>>



\* end of the with block of line 277: the temporary directory is removed
KsExit ==
    /\ At("ks_exit")
    /\ fs' = rmtree(fs, temp_dir)
    /\ Return("download_unzip_keep_subset")
    /\ UNCHANGED <<call, response, members, todo, patterns, candidate, stats,
                   fs0, prev, ncalls>>

KeepSubsetStep == KsCheck \/ KsExit

-----------------------------------------------------------------------------
(* Specifications *)

\* the caller uses the dataset operations
Next ==
    \/ BeginDownloadAndUnzip
    \/ BeginKeepSubset
    \/ DownloadStep
    \/ UnzipStep
    \/ DownloadAndUnzipStep
    \/ MoveFilesStep
    \/ KeepSubsetStep
    \/ Unwind
    \/ Crash

Spec == Init /\ [][Next]_vars

\* the caller uses download and unzip directly
NextTools ==
    \/ BeginDownload
    \/ BeginUnzip
    \/ DownloadStep
    \/ UnzipStep
    \/ Crash

SpecTools == Init /\ [][NextTools]_vars

-----------------------------------------------------------------------------
(* Properties of download *)

\* the errors of a request, of opening the temporary file, and of the transfer
TransferErrors == {"URLError", "OSError", "IOError"}

\* C1: during and after a download to a path that did not exist, also after a
\* failure or a termination of the process at any point, the destination does
\* not exist or holds the complete body of the response.
C1_DownloadAtomic ==
    (call.op = "download" /\ ~exists(fs0, call.path))
        => (~exists(fs, call.path) \/ fs[call.path] = Body(call.url))

\* a transfer that stopped after its first block: the block is in the
\* temporary file and the destination does not exist
C1_Witness ==
    /\ call.op = "download"
    /\ result \in {"raised", "crashed"}
    /\ ~exists(fs0, call.path)
    /\ exists(fs, tmp_path)
    /\ Len(fs[tmp_path]) = 1
    /\ Len(Body(call.url)) = 2
    /\ ~exists(fs, call.path)

\* C2 as stated: a download to an existing path makes no request, raises
\* nothing and changes nothing; and of any two consecutive downloads to the
\* same path, at most one receives a response body, and the file after the
\* second is the file after the first.
C2_AsStated ==
    call.op = "download" =>
        /\ exists(fs0, call.path) =>
              (stats.requests = 0 /\ result # "raised" /\ fs = fs0)
        /\ (prev.same /\ result \in {"returned", "raised"}) =>
              /\ prev.transfers + stats.transfers <= 1
              /\ exists(fs, call.path) = exists(fs0, call.path)
              /\ exists(fs, call.path) => fs[call.path] = fs0[call.path]

\* C2, amended: a download to an existing path makes no request, raises
\* nothing and changes nothing; and after a download that returned, the next
\* download to the same path makes no request and leaves the file as it was,
\* so that the two calls together transfer the body at most once.
C2_DownloadIdempotent ==
    call.op = "download" =>
        /\ exists(fs0, call.path) =>
              (stats.requests = 0 /\ result # "raised" /\ fs = fs0)
        /\ (prev.same /\ prev.result = "returned") =>
              /\ exists(fs0, call.path)
              /\ stats.requests = 0
              /\ prev.transfers + stats.transfers <= 1
              /\ result # "raised"
              /\ fs = fs0

\* the second of two downloads to the same path returned, after the first
\* had fetched the file
C2_Witness ==
    /\ call.op = "download"
    /\ prev.same
    /\ prev.result = "returned"
    /\ prev.transfers = 1
    /\ result = "returned"
    /\ fs[call.path] = Body(call.url)

\* C6: a download that fails at its request, at opening its temporary file or
\* in the transfer raises the error, has made exactly one request, and leaves
\* no file at the destination.
C6_DownloadFailure ==
    (call.op = "download" /\ error \in TransferErrors) =>
        /\ result = "raised"
        /\ stats.requests = 1
        /\ ~exists(fs, call.path)

\* a transfer failed after a block was written
C6_Witness ==
    /\ call.op = "download"
    /\ error = "IOError"
    /\ result = "raised"
    /\ exists(fs, tmp_path)
    /\ fs[tmp_path] # << >>

\* C8: when download or unzip has returned or raised, the staging file or
\* directory that the call created does not exist.
C8_StagingRemoved ==
    /\ (call.op = "download" /\ result \in {"returned", "raised"}
            /\ ~exists(fs0, tmp_path))
          => ~exists(fs, tmp_path)
    /\ (call.op = "unzip" /\ result \in {"returned", "raised"}
            /\ ~exists(fs0, tmp_unzip_path))
          => ~exists(fs, tmp_unzip_path)

-----------------------------------------------------------------------------
(* Properties of unzip *)

\* directory p of f holds every member of the archive, with its content
HoldsArchive(f, p, blocks) ==
    \A i \in 1..Len(namelist(blocks)) :
        LET m == namelist(blocks)[i]
        IN  exists(f, p \o m.name) /\ f[p \o m.name] = m.data

\* the archive that the running unzip was given is there and can be read
ArchiveGiven == exists(fs0, call.zip) /\ ~isdir(fs0, call.zip) /\ IsZip(fs0[call.zip])

\* C4: during and after an unzip that found no destination directory, also
\* after a failure or a termination of the process at any point, the
\* destination directory does not exist or holds every member of the archive.
C4_UnzipAtomic ==
    (call.op = "unzip" /\ ~exists(fs0, call.dest))
        => \/ ~exists(fs, call.dest)
           \/ ArchiveGiven /\ HoldsArchive(fs, call.dest, fs0[call.zip])

\* an extraction that stopped after its first member: the member is in the
\* temporary directory and the destination does not exist
C4_Witness ==
    /\ call.op = "unzip"
    /\ result \in {"raised", "crashed"}
    /\ ~exists(fs0, call.dest)
    /\ ArchiveGiven
    /\ stats.extracted = 1
    /\ Len(namelist(fs0[call.zip])) = 2
    /\ exists(fs, tmp_unzip_path \o namelist(fs0[call.zip])[1].name)
    /\ ~exists(fs, call.dest)

\* the second of two consecutive unzip calls with the same arguments, the
\* first of which returned, does nothing
SecondUnzipDoesNothing ==
    /\ stats.opened = 0
    /\ stats.extracted = 0
    /\ result # "raised"
    /\ fs = fs0

\* C7 as stated: for every archive and every path_test, after an unzip that
\* returned, a second unzip with the same arguments extracts nothing, raises
\* nothing and leaves the filesystem as it was.
C7_AsStated ==
    (call.op = "unzip" /\ prev.same /\ prev.result = "returned")
        => SecondUnzipDoesNothing

\* extracting the archive creates the path t under its destination
ArchiveCreates(blocks, t) ==
    \E i \in 1..Len(namelist(blocks)) : IsPrefix(t, namelist(blocks)[i].name)

\* C7, amended: when path_test is empty or names a path that the archive
\* creates, after an unzip that returned, a second unzip with the same
\* arguments extracts nothing, raises nothing and leaves the filesystem as it
\* was.
C7_UnzipIdempotent ==
    (/\ call.op = "unzip"
     /\ prev.same
     /\ prev.result = "returned"
     /\ \/ call.test = << >>
        \/ ArchiveGiven /\ ArchiveCreates(fs0[call.zip], call.test))
        => SecondUnzipDoesNothing

\* the second unzip of an archive returned, with a path_test that names one of
\* the archive's members, which the first unzip extracted
C7_Witness ==
    /\ call.op = "unzip"
    /\ prev.same
    /\ prev.result = "returned"
    /\ call.test = <<"keep.txt">>
    /\ ArchiveGiven
    /\ ArchiveCreates(fs0[call.zip], call.test)
    /\ HoldsArchive(fs, call.dest, fs0[call.zip])
    /\ result = "returned"

-----------------------------------------------------------------------------
(* Properties of the dataset operations *)

\* the running call made no request and extracted nothing
NoDownloadNoExtraction ==
    stats.requests = 0 /\ stats.opened = 0 /\ stats.extracted = 0

\* C3 as stated: a dataset operation that finds its target directory makes no
\* request, extracts nothing and moves nothing; and the call after a dataset
\* operation that returned, for the same target, makes no request and
\* extracts nothing.
C3_AsStated ==
    call.op \in DatasetOps =>
        /\ exists(fs0, target(call)) => (NoDownloadNoExtraction /\ stats.moved = 0)
        /\ (prev.same /\ prev.result = "returned") => NoDownloadNoExtraction

\* C3, amended: a dataset operation that finds its target directory makes no
\* request and extracts nothing, and leaves the target directory in place;
\* download_unzip_keep_subset, and download_and_unzip without flatten, then
\* change nothing at all, while download_and_unzip with flatten still runs its
\* flatten step.  A dataset operation that returned leaves its target
\* directory, so every call of an unbroken series of later calls for the same
\* target makes no request and extracts nothing.
C3_DatasetSkip ==
    call.op \in DatasetOps =>
        /\ exists(fs0, target(call)) =>
              /\ NoDownloadNoExtraction
              /\ exists(fs, target(call))
              /\ (call.op = "download_unzip_keep_subset" \/ ~call.flatten)
                    => (stats.moved = 0 /\ fs = fs0)
        /\ result = "returned" => exists(fs, target(call))
        /\ (prev.same /\ prev.result = "returned") =>
              (exists(fs0, target(call)) /\ NoDownloadNoExtraction)

\* a download_and_unzip with flatten returned after the call before it had
\* installed the same target: it made no request, and its flatten step moved
\* the content of the single directory up
C3_Witness ==
    /\ call.op = "download_and_unzip"
    /\ prev.same
    /\ prev.result = "returned"
    /\ prev.transfers = 1
    /\ result = "returned"
    /\ NoDownloadNoExtraction
    /\ stats.moved > 0

\* the names of the archive's top-level entries
TopNames(blocks) == {namelist(blocks)[i].name[1] : i \in 1..Len(namelist(blocks))}

\* the top-level entries that download_unzip_keep_subset is to keep
Kept(c) ==
    {n \in TopNames(Body(c.url)) :
        \E i \in 1..Len(c.patterns) : fnmatch(n, c.patterns[i])}

\* the archive's sole top-level entry is a directory
SoleTopDirectory(blocks) ==
    /\ Cardinality(TopNames(blocks)) = 1
    /\ \A i \in 1..Len(namelist(blocks)) : Len(namelist(blocks)[i].name) > 1

\* directory p of f holds every member of the archive, one level up
HoldsFlattened(f, p, blocks) ==
    \A i \in 1..Len(namelist(blocks)) :
        LET m == namelist(blocks)[i]
        IN  exists(f, p \o Tail(m.name)) /\ f[p \o Tail(m.name)] = m.data

\* the target directory holds what the running dataset operation is to leave
\* there: the kept entries, or the archive, as it is or (when flatten was
\* asked for and the archive has a sole top-level directory) one level up
CompleteResult ==
    IF call.op = "download_unzip_keep_subset"
    THEN listdir(fs, target(call)) = Kept(call)
    ELSE \/ HoldsArchive(fs, target(call), Body(call.url))
         \/ /\ call.flatten
            /\ SoleTopDirectory(Body(call.url))
            /\ HoldsFlattened(fs, target(call), Body(call.url))
            /\ TopNames(Body(call.url)) \cap listdir(fs, target(call)) = {}

\* C5: after the process terminated during a dataset operation that found no
\* target directory, the target directory does not exist or holds the
\* complete result of the operation.
C5_NoPartialTarget ==
    (call.op \in DatasetOps /\ result = "crashed" /\ ~exists(fs0, target(call)))
        => (~exists(fs, target(call)) \/ CompleteResult)

\* C9: after a download_and_unzip with flatten that installed an archive whose
\* sole top-level entry is a directory, the children of that directory are
\* children of the target directory and the directory is gone.
C9_FlattenPromotes ==
    (/\ call.op = "download_and_unzip"
     /\ call.flatten
     /\ result = "returned"
     /\ ~exists(fs0, target(call))
     /\ SoleTopDirectory(Body(call.url)))
        => /\ HoldsFlattened(fs, target(call), Body(call.url))
           /\ TopNames(Body(call.url)) \cap listdir(fs, target(call)) = {}

\* directory p of f holds exactly one entry, which is a directory
SingleDirectory(f, p) ==
    \E e \in entries(f, p) : entries(f, p) = {e} /\ isdir(f, p \o <<e>>)

-----------------------------------------------------------------------------
(* Properties of the flatten step *)

\* what was under directory d of p in f0 is one level up in f, directly under
\* p, and d is gone
Promoted(f0, f, p, d) ==
    /\ \A q \in Under(f0, p \o <<d>>) \ {p \o <<d>>} :
          LET up == p \o SubSeq(q, Len(p) + 2, Len(q))
          IN  exists(f, up) /\ f[up] = f0[q]
    /\ ~exists(f, p \o <<d>>)

\* the running call is a download_and_unzip with flatten that found its
\* target directory, so that its flatten step started from the tree of fs0,
\* and it returned
FlattenedExisting ==
    /\ call.op = "download_and_unzip"
    /\ call.flatten
    /\ exists(fs0, target(call))
    /\ result = "returned"

-----------------------------------------------------------------------------
(* Properties of download_unzip_keep_subset *)

\* the files (not the directories) at or under p
Files(f, p) == {q \in Under(f, p) : f[q] # DirNode}

\* the names of the files at the top level of the archive
TopFiles(blocks) ==
    {namelist(blocks)[i].name[1] :
        i \in {j \in 1..Len(namelist(blocks)) : Len(namelist(blocks)[j].name) = 1}}

\* the top-level files of the archive of call c whose names match a pattern
KeptFiles(c) ==
    {n \in TopFiles(Body(c.url)) :
        \E i \in 1..Len(c.patterns) : fnmatch(n, c.patterns[i])}

\* C12: after a download_unzip_keep_subset that found no target directory and
\* returned, the files under the target directory are exactly the top-level
\* files of the archive whose names match one of the patterns.
C12_KeepsExactlyMatching ==
    (/\ call.op = "download_unzip_keep_subset"
     /\ result = "returned"
     /\ ~exists(fs0, target(call)))
        => Files(fs, target(call)) = {target(call) \o <<n>> : n \in KeptFiles(call)}

-----------------------------------------------------------------------------
(* Properties of the extraction inside the dataset operations *)

\* some member of the archive, extracted under directory p, has an absolute
\* path of more than 260 characters
ExtractedPathTooLong(blocks, p) ==
    \E i \in 1..Len(namelist(blocks)) :
        Len(abspath(p) \o "/" \o PathString(namelist(blocks)[i].name)) > 260

\* C13: an unzip (here the one download_and_unzip runs on the archive it
\* downloaded) of an archive with a member whose extracted path under the
\* destination is longer than 260 characters never returns and never creates
\* the destination; once it has opened the archive it raises, and it has
\* written no member.
C13_PathLengthGuard ==
    (/\ call.op = "download_and_unzip"
     /\ ~exists(fs0, target(call))
     /\ IsZip(Body(call.url))
     /\ ExtractedPathTooLong(Body(call.url), target(call)))
        => /\ result # "returned"
           /\ ~exists(fs, target(call))
           /\ stats.extracted = 0
           /\ stats.opened > 0 => error = "ValueError"

\* the unzip of an archive with a member of 235 characters into cache/X_tmp
\* raised the error of the length check
C13_Witness ==
    /\ call.op = "download_and_unzip"
    /\ ~exists(fs0, target(call))
    /\ IsZip(Body(call.url))
    /\ ExtractedPathTooLong(Body(call.url), target(call))
    /\ stats.opened = 1
    /\ error = "ValueError"
    /\ result = "raised"

\* C14: a dataset operation in which download or unzip raised does not
\* return, the error it raises is the error that was raised inside, and its
\* target directory does not exist; the next call for the same target then
\* finds no target directory and, instead of skipping, goes on to the
\* download.
C14_FailurePropagates ==
    call.op \in DatasetOps =>
        /\ error # "" => result # "returned"
        /\ (pc = "unwind" /\ error \in DownloadUnzipErrors) => ~exists(fs, target(call))
        /\ (prev.same /\ prev.failed) =>
              /\ ~exists(fs0, target(call))
              /\ pc \notin {"dau_check", "ks_check"} =>
                    (pc \in {"download", "dl_open"} \/ stats.requests = 1)

\* after a call that had received the response and then failed in its
\* transfer or its extraction, the next call for the same target made a
\* request again and opened the archive
C14_Witness ==
    /\ call.op \in DatasetOps
    /\ prev.same
    /\ prev.failed
    /\ prev.transfers = 1
    /\ stats.requests = 1
    /\ stats.opened = 1

\* C15: after a download_and_unzip without flatten that found no target
\* directory and returned, the target directory exists and holds every member
\* of the archive at the member's path in the archive.
C15_InstallsArchive ==
    (/\ call.op = "download_and_unzip"
     /\ ~call.flatten
     /\ result = "returned"
     /\ ~exists(fs0, target(call)))
        => /\ isdir(fs, target(call))
           /\ IsZip(Body(call.url))
           /\ HoldsArchive(fs, target(call), Body(call.url))

\* an archive with members in nested directories was installed into a
\* subfolder of the dataset
C15_Witness ==
    /\ call.op = "download_and_unzip"
    /\ ~call.flatten
    /\ result = "returned"
    /\ ~exists(fs0, target(call))
    /\ call.sub = "s"
    /\ stats.extracted = 2
    /\ exists(fs, target(call) \o <<"subfolder", "more", "deep.txt">>)

-----------------------------------------------------------------------------
(* Properties of a completed download *)

\* C16: after a download to a path that did not exist has returned, the path
\* holds the blocks of the response body in the order they were read, and the
\* temporary file is gone.
C16_DownloadComplete ==
    (call.op = "download" /\ result = "returned" /\ ~exists(fs0, call.path))
        => /\ exists(fs, call.path)
           /\ fs[call.path] = Body(call.url)
           /\ ~exists(fs, tmp_path)

\* a body of two blocks was downloaded where an earlier download had left its
\* temporary file behind
C16_Witness ==
    /\ call.op = "download"
    /\ result = "returned"
    /\ ~exists(fs0, call.path)
    /\ exists(fs0, tmp_path)
    /\ Len(Body(call.url)) = 2
    /\ stats.transfers = 1

-----------------------------------------------------------------------------
(* Properties of the temporary directory *)

\* C17: when a dataset operation has returned or raised, the temporary
\* directory it made for the archive does not exist.
C17_ScratchRemoved ==
    (call.op \in DatasetOps /\ result \in {"returned", "raised"})
        => Under(fs, temp_dir) = {}

\* a download_unzip_keep_subset raised after it had downloaded into its
\* temporary directory a file that is no archive
C17_Witness ==
    /\ call.op = "download_unzip_keep_subset"
    /\ result = "raised"
    /\ error = "BadZipFile"
    /\ stats.transfers = 1
    /\ Under(fs, temp_dir) = {}

-----------------------------------------------------------------------------
(* Properties of a skipped unzip *)

\* C18: an unzip that finds path_test under its destination (the destination
\* itself when path_test is empty) does not open the archive, makes no
\* temporary directory, raises nothing and changes nothing.
C18_UnzipSkip ==
    (call.op = "unzip" /\ exists(fs0, call.dest \o call.test))
        => /\ stats.opened = 0
           /\ stats.extracted = 0
           /\ result # "raised"
           /\ fs = fs0

\* an unzip returned that had found the member keep.txt under its
\* destination, with the archive in place and no temporary directory
C18_Witness ==
    /\ call.op = "unzip"
    /\ call.test = <<"keep.txt">>
    /\ exists(fs0, call.dest \o call.test)
    /\ ArchiveGiven
    /\ ~exists(fs, tmp_unzip_path)
    /\ result = "returned"

-----------------------------------------------------------------------------
(* Properties of a download_unzip_keep_subset that keeps nothing *)

\* no file of the archive of call c has a name that matches a pattern of c
NoFileMatches(c) ==
    \A i \in 1..Len(namelist(Body(c.url))), j \in 1..Len(c.patterns) :
        LET name == namelist(Body(c.url))[i].name
        IN  ~fnmatch(name[Len(name)], c.patterns[j])

\* the running call is a download_unzip_keep_subset that found no target
\* directory and whose patterns match no file of the archive it extracted
KeepsNothing ==
    /\ call.op = "download_unzip_keep_subset"
    /\ ~exists(fs0, target(call))
    /\ IsZip(Body(call.url))
    /\ stats.extracted = Len(namelist(Body(call.url)))
    /\ NoFileMatches(call)

\* the directory of the dataset of the running call
DatasetDirectory == download_path \o <<call.ds>>

\* the directory p of fs0 is an empty directory
EmptyBefore(p) == isdir(fs0, p) /\ listdir(fs0, p) = {}

\* the running call did nothing
Skipped == NoDownloadNoExtraction /\ result # "raised" /\ fs = fs0

-----------------------------------------------------------------------------
(* Properties of repeated flatten *)

-----------------------------------------------------------------------------
(* Properties of the length check *)

\* C21: an unzip that has opened its archive raises the error of the length
\* check exactly when some member's absolute path under the destination is
\* longer than 260 characters.
C21_LengthCheckExact ==
    (call.op = "unzip" /\ ArchiveGiven /\ stats.opened > 0)
        => (error = "ValueError" <=> ExtractedPathTooLong(fs0[call.zip], call.dest))


-----------------------------------------------------------------------------
(* Properties of the parent directories of a download *)

\* C22: a download accepts every file path, a bare file name included: a
\* download that raises has sent its request, so none fails in the creation
\* of the parent directories.
C22_BareFileName ==
    (call.op = "download" /\ result = "raised") => stats.requests > 0

-----------------------------------------------------------------------------
(* Properties of move_files *)

\* the file named n at the top level of the archive is in directory p of f
\* with its data
HoldsTopFile(f, p, blocks, n) ==
    \A i \in 1..Len(namelist(blocks)) :
        namelist(blocks)[i].name = <<n>>
            => exists(f, p \o <<n>>) /\ f[p \o <<n>>] = namelist(blocks)[i].data

\* move_files returned to download_unzip_keep_subset, which has not yet left
\* its with block: the source directory is still there
MoveFilesReturned == At("ks_exit")

\* C23: when move_files returns (here the call of download_unzip_keep_subset,
\* whose source directory holds the extracted archive), the destination
\* directory exists, every immediate file of the source directory that matches
\* a pattern is in the destination directory under its name and no longer in
\* the source directory, every immediate file that matches no pattern is
\* still in the source directory and not in the destination directory, there
\* was one move for each matching entry, and no move raised an error.
C23_MoveMatching ==
    /\ error # "shutil.Error"
    /\ MoveFilesReturned =>
          /\ isdir(fs, destination_directory)
          /\ \A n \in TopFiles(Body(call.url)) :
                IF n \in KeptFiles(call)
                THEN /\ HoldsTopFile(fs, destination_directory, Body(call.url), n)
                     /\ ~exists(fs, source_directory \o <<n>>)
                ELSE /\ HoldsTopFile(fs, source_directory, Body(call.url), n)
                     /\ ~exists(fs, destination_directory \o <<n>>)
          /\ stats.moved = Cardinality(Kept(call))

\* move_files returned after patterns that overlap: keep.txt matches both
\* "*.txt" and "*e*" and was moved once, drop.csv matches neither and stayed
C23_Witness ==
    /\ MoveFilesReturned
    /\ call.url = "root.zip"
    /\ call.patterns = <<"*.txt", "*e*">>
    /\ fnmatch("keep.txt", "*.txt") /\ fnmatch("keep.txt", "*e*")
    /\ stats.moved = 1
    /\ exists(fs, destination_directory \o <<"keep.txt">>)
    /\ exists(fs, source_directory \o <<"drop.csv">>)

-----------------------------------------------------------------------------
(* Properties of the dataset directories as markers *)

\* the directories of the dataset locations that exist in f
Markers(f) ==
    {l \in DatasetLocations : exists(f, target([ds |-> l[1], sub |-> l[2]]))}

\* C24: a dataset directory that exists when a dataset operation is called
\* still exists at every later moment of the call; shown here for a call that
\* finds its own directory, after a call that returned.
C24_MarkerPersists ==
    (/\ call.op \in DatasetOps
     /\ prev.result = "returned"
     /\ exists(fs0, target(call)))
        => Markers(fs0) \subseteq Markers(fs)

-----------------------------------------------------------------------------
(* Properties of the content of an extraction *)

\* the paths of the archive's members under directory p
MemberPaths(p, blocks) ==
    {p \o namelist(blocks)[i].name : i \in 1..Len(namelist(blocks))}

\* C25: after an extraction that was not skipped and succeeded (here the one
\* of a download_and_unzip without flatten that found no target directory and
\* returned), the files under the destination directory are exactly the
\* members of the archive of this call.
C25_ExactContents ==
    (/\ call.op = "download_and_unzip"
     /\ ~call.flatten
     /\ result = "returned"
     /\ ~exists(fs0, target(call)))
        => Files(fs, target(call)) = MemberPaths(target(call), Body(call.url))

-----------------------------------------------------------------------------
(* Properties of the datasets of other names *)

\* the directory of dataset name d
DatasetRoot(d) == download_path \o <<d>>

\* the dataset names whose directory exists in f
Materialized(f) == {l[1] : l \in {k \in DatasetLocations : exists(f, DatasetRoot(k[1]))}}

\* C26: at every moment of a download_and_unzip for one dataset name, the
\* directory tree of every dataset of another name that existed when the call
\* began is what it was; shown here for a call after a call that returned.
C26_DatasetIsolation ==
    (call.op = "download_and_unzip" /\ prev.result = "returned")
        => \A d \in Materialized(fs0) \ {call.ds} :
              /\ exists(fs, DatasetRoot(d))
              /\ Tree(fs, DatasetRoot(d)) = Tree(fs0, DatasetRoot(d))

-----------------------------------------------------------------------------
(* Properties of a failed dataset operation *)

\* C27: after a download_and_unzip raised during its download or its
\* extraction, every dataset directory that did not exist when the call began
\* still does not exist.
C27_FailureSetsNoMarker ==
    (call.op = "download_and_unzip" /\ RaisedInWith)
        => Markers(fs) \subseteq Markers(fs0)

=============================================================================
